---- MODULE Spec2Model ----
(***************************************************************************)
(* Model of the echo tool server (src/main.py, src/echo/config.py).        *)
(*                                                                         *)
(* The module body of main.py is the startup sequence: the settings are    *)
(* loaded when config is imported, then setup_logging, the logger, the     *)
(* FastAPI app, setup_tracing, setup_metrics and the route decorators run  *)
(* top to bottom.  Once the module has been imported the app serves        *)
(* requests; every request passes the metrics middleware, the router and   *)
(* the body validation before its handler runs.                            *)
(*                                                                         *)
(* Text is a sequence of one-character strings, so that concatenation and  *)
(* validation act on the characters.                                       *)
(***************************************************************************)
EXTENDS Integers, Sequences, FiniteSets, TLC

\* ------------------------------------------------------------------ bounds

\* number of requests the clients send in one run
MaxReqs == 2

\* ------------------------------------------------------------ environment

Unset == "<unset>"

\* values of the LOG_LEVEL environment variable
LogLevelEnv == {Unset, "info", "BOGUS"}
\* values of SERVERS: unset, a JSON list holding a string-to-string object
\* and a number, text that is no JSON
ServersEnv ==
    { [set |-> FALSE, json |-> FALSE, items |-> <<>>],
      [set |-> TRUE, json |-> TRUE, items |-> <<"dict[str,str]", "int">>],
      [set |-> TRUE, json |-> FALSE, items |-> <<>>] }
\* values of OTEL_EXPORTER_OTLP_ENDPOINT
OtelEnv == {Unset, "http://collector:4317"}

VARIABLES
    env,        \* the process environment, fixed when the process starts
    pc,         \* position in the module body of main.py
    settings,   \* config.settings
    logging,    \* the logging configuration: calls of setup_logging, root level
    steps,      \* the startup steps completed, in order
    startupLog, \* the log calls made by the startup code
    tracing,    \* tracer provider, span processor and app instrumentation
    routes,     \* the route table of app, in registration order
    metrics,    \* the Instrumentator middleware and its request counters
    reqs,       \* the requests, by arrival number
    spans       \* the batch span processor: spans queued, export attempted

vars == <<env, pc, settings, logging, steps, startupLog, tracing, routes,
          metrics, reqs, spans>>

\* ------------------------------------------------------------------- text

Str_ok == <<"o", "k">>
EchoPrefix == <<"E", "c", "h", "o", ":", " ">>
\* the echo inputs the clients send: the empty text, blanks only, and text
\* with a character outside ASCII
EchoInputs == {<<>>, <<" ", " ">>, <<"H", "é">>}

\* ----------------------------------------------------------------- config

\* the fields of Settings that the startup code reads, with their defaults
SettingsDefaults ==
    [ APP_NAME |-> "Echo Tool Server",
      LOG_LEVEL |-> "WARN",
      APP_VERSION |-> "0.1.12",
      SERVERS |-> <<"dict[str,str]">>,
      OTEL_EXPORTER_OTLP_ENDPOINT |-> "" ]

\* SERVERS: list[dict[str, str]]: the value must be JSON, and each item a
\* string-to-string object
ServersValid(v) ==
    v.set => (v.json /\ \A i \in 1..Len(v.items) : v.items[i] = "dict[str,str]")

\* a loader that takes every value as it comes
SettingsLoadFails_Never(e) == FALSE

\* Settings(): every field from its environment variable when that is set,
\* else the default; the construction raises when a typed field is malformed
SettingsLoadFails(e) == ~ServersValid(e.SERVERS)

Settings(e) ==
    [ APP_NAME |-> SettingsDefaults.APP_NAME,
      LOG_LEVEL |-> IF e.LOG_LEVEL = Unset THEN SettingsDefaults.LOG_LEVEL
                    ELSE e.LOG_LEVEL,
      APP_VERSION |-> SettingsDefaults.APP_VERSION,
      SERVERS |-> IF e.SERVERS.set THEN e.SERVERS.items
                  ELSE SettingsDefaults.SERVERS,
      OTEL_EXPORTER_OTLP_ENDPOINT |->
          IF e.OTEL_EXPORTER_OTLP_ENDPOINT = Unset
          THEN SettingsDefaults.OTEL_EXPORTER_OTLP_ENDPOINT
          ELSE e.OTEL_EXPORTER_OTLP_ENDPOINT,
      loaded |-> TRUE ]

NoSettings ==
    [ APP_NAME |-> "", LOG_LEVEL |-> "", APP_VERSION |-> "", SERVERS |-> <<>>,
      OTEL_EXPORTER_OTLP_ENDPOINT |-> "", loaded |-> FALSE ]

\* ---------------------------------------------------------------- logging

\* str.upper() on the level names the model uses
upper(s) ==
    CASE s = "info" -> "INFO"
      [] s = "warn" -> "WARN"
      [] s = "debug" -> "DEBUG"
      [] OTHER -> s

\* the level names logging.basicConfig(level=...) accepts, with their numbers
nameToLevel ==
    [ n \in {"CRITICAL", "FATAL", "ERROR", "WARN", "WARNING", "INFO", "DEBUG",
             "NOTSET"} |->
        CASE n \in {"CRITICAL", "FATAL"} -> 50
          [] n = "ERROR" -> 40
          [] n \in {"WARN", "WARNING"} -> 30
          [] n = "INFO" -> 20
          [] n = "DEBUG" -> 10
          [] OTHER -> 0 ]

\* logging.basicConfig raises ValueError for a level that names no level
BasicConfigFails(s) == upper(s.LOG_LEVEL) \notin DOMAIN nameToLevel

\* the root logger before basicConfig: level WARNING, setup_logging not called
LoggingInit == [configured |-> 0, level |-> nameToLevel["WARNING"]]

\* logger.info(event, key=value): one call at level info; the record is
\* written when the root level lets info through
LogCall(event, key, value) ==
    [ event |-> event, level |-> "info", key |-> key, value |-> value,
      configured |-> logging.configured > 0,
      emitted |-> nameToLevel["INFO"] >= logging.level ]

\* ---------------------------------------------------------------- startup

\* the statements of the module body of main.py, top to bottom
StartupOrder ==
    << "settings", "setup_logging", "get_logger", "app", "setup_tracing",
       "setup_metrics", "route_echo", "route_health_head", "route_health_get",
       "route_ready" >>

IndexOf(p) == CHOOSE i \in 1..Len(StartupOrder) : StartupOrder[i] = p

\* the module body with setup_tracing called ahead of setup_logging
NextStatement_TracingFirst(p) ==
    LET order == << "settings", "setup_tracing", "setup_logging", "get_logger",
                    "app", "setup_metrics", "route_echo", "route_health_head",
                    "route_health_get", "route_ready" >>
        i == CHOOSE j \in 1..Len(order) : order[j] = p
    IN  IF i = Len(order) THEN "serving" ELSE order[i + 1]

\* the statement that runs after statement p
NextStatement(p) ==
    IF IndexOf(p) = Len(StartupOrder) THEN "serving"
    ELSE StartupOrder[IndexOf(p) + 1]

Advance(p) ==
    /\ pc' = NextStatement(p)
    /\ steps' = Append(steps, p)

Abort(p) ==
    /\ pc' = "aborted"
    /\ steps' = steps

Route(method, path, handler) ==
    [method |-> method, path |-> path, handler |-> handler]

TracingInit ==
    [ provider |-> FALSE, providerInits |-> 0, resource |-> "",
      exporter |-> "", processor |-> FALSE, instrumented |-> FALSE ]

\* config.py: settings = Settings(), run by "from config import settings"
LoadSettings ==
    /\ pc = "settings"
    /\ IF SettingsLoadFails(env)
       THEN Abort("settings") /\ settings' = settings
       ELSE Advance("settings") /\ settings' = Settings(env)
    /\ UNCHANGED <<env, logging, startupLog, tracing, routes, metrics, reqs, spans>>

\* setup_logging(): structlog.configure, then logging.basicConfig with the
\* upper-cased LOG_LEVEL
setup_logging ==
    /\ pc = "setup_logging"
    /\ IF BasicConfigFails(settings)
       THEN Abort("setup_logging") /\ logging' = logging
       ELSE /\ Advance("setup_logging")
            /\ logging' = [ configured |-> logging.configured + 1,
                            level |-> nameToLevel[upper(settings.LOG_LEVEL)] ]
    /\ UNCHANGED <<env, settings, startupLog, tracing, routes, metrics, reqs, spans>>

\* logger = structlog.get_logger()
get_logger ==
    /\ pc = "get_logger"
    /\ Advance("get_logger")
    /\ UNCHANGED <<env, settings, logging, startupLog, tracing, routes, metrics,
                   reqs, spans>>

\* app = FastAPI(...): an app with no route of this module yet
CreateApp ==
    /\ pc = "app"
    /\ Advance("app")
    /\ routes' = <<>>
    /\ UNCHANGED <<env, settings, logging, startupLog, tracing, metrics, reqs, spans>>

\* tracing set up whatever the endpoint
TracingWanted_Always(s) == TRUE

\* the test of setup_tracing: an empty endpoint disables tracing
TracingWanted(s) == s.OTEL_EXPORTER_OTLP_ENDPOINT # ""

\* setup_tracing(app)
setup_tracing ==
    /\ pc = "setup_tracing"
    /\ Advance("setup_tracing")
    /\ IF ~TracingWanted(settings)
       THEN /\ startupLog' = Append(startupLog,
                  LogCall("Tracing disabled because OTEL_EXPORTER_OTLP_ENDPOINT is empty",
                          "", <<>>))
            /\ tracing' = tracing
       ELSE /\ tracing' =
                  [ provider |-> TRUE,
                    providerInits |-> tracing.providerInits + 1,
                    resource |-> settings.APP_NAME,
                    exporter |-> settings.OTEL_EXPORTER_OTLP_ENDPOINT,
                    processor |-> TRUE,
                    instrumented |-> TRUE ]
            /\ startupLog' = Append(startupLog,
                  LogCall("Tracing enabled, exporting to", "", <<>>))
    /\ UNCHANGED <<env, settings, logging, routes, metrics, reqs, spans>>

\* ---------------------------------------------------------------- metrics

Paths == {"/echo", "/health", "/ready", "/metrics"}
Methods == {"GET", "HEAD", "POST"}
StatusGroups == {"2xx", "4xx"}
CounterKeys == Paths \X Methods \X StatusGroups

ZeroCounts == [k \in CounterKeys |-> 0]

MetricsInit == [instrumented |-> FALSE, exposed |-> FALSE, counts |-> ZeroCounts]

\* the lower limit of the group taken exclusive
StatusGroup_Exclusive(status) == IF status > 200 /\ status < 300 THEN "2xx" ELSE "4xx"

\* the status label of the request counter: status codes grouped by hundreds
StatusGroup(status) == IF status >= 200 /\ status < 300 THEN "2xx" ELSE "4xx"

\* setup_metrics(app): Instrumentator().instrument(app) wraps every request
\* of the app in the counting middleware (no handler is excluded), and
\* .expose(app) registers GET /metrics
setup_metrics ==
    /\ pc = "setup_metrics"
    /\ Advance("setup_metrics")
    /\ metrics' = [metrics EXCEPT !.instrumented = TRUE, !.exposed = TRUE]
    /\ routes' = Append(routes, Route("GET", "/metrics", "metrics"))
    /\ UNCHANGED <<env, settings, logging, startupLog, tracing, reqs, spans>>

\* ----------------------------------------------------------------- routes

\* a route decorator of the module body: statement p registers the route
Register(p, method, path, handler) ==
    /\ pc = p
    /\ Advance(p)
    /\ routes' = Append(routes, Route(method, path, handler))
    /\ UNCHANGED <<env, settings, logging, startupLog, tracing, metrics, reqs, spans>>

\* @app.post("/echo")
route_echo == Register("route_echo", "POST", "/echo", "echo")
\* @app.head("/health"), the inner decorator, applied first
route_health_head == Register("route_health_head", "HEAD", "/health", "health_check")
\* @app.get("/health")
route_health_get == Register("route_health_get", "GET", "/health", "health_check")
\* @app.get("/ready")
route_ready == Register("route_ready", "GET", "/ready", "ready_check")

\* the routes matching a request, and the handler of the first of them
Matching(method, path) ==
    {i \in 1..Len(routes) : routes[i].method = method /\ routes[i].path = path}

HandlerOf(method, path) ==
    LET m == Matching(method, path)
    IN  IF m = {} THEN "none"
        ELSE routes[CHOOSE i \in m : \A j \in m : i <= j].handler

\* --------------------------------------------------------------- requests

\* JSON request bodies: an object with or without the member "input", whose
\* value is a string, a number or null
NoBody == [has |-> FALSE, type |-> "null", text |-> <<>>]
Bodies ==
    {NoBody}
    \cup {[has |-> TRUE, type |-> ty, text |-> <<>>] : ty \in {"int", "null"}}
    \cup {[has |-> TRUE, type |-> "str", text |-> s] : s \in EchoInputs}

\* JSON response bodies: an object with one member, or nothing
Json(key, val) == [key |-> key, val |-> val]
EmptyBody == Json("", <<>>)

NoRequest ==
    [ st |-> "none", method |-> "", path |-> "", body |-> NoBody,
      handler |-> "none", payload |-> <<>>, status |-> 0,
      result |-> EmptyBody, wire |-> EmptyBody, snapshot |-> ZeroCounts,
      logs |-> <<>>, ahead |-> "idle" ]

ReqIds == 1..MaxReqs

InFlight(q) == reqs[q].st \notin {"none", "done"}

\* what a request finds when it arrives, noted with the request to tell
\* which requests were in the app together and what a snapshot can report:
\* no request in the app ("idle"), or a request that has entered and not
\* left ("busy")
Ahead == IF \A q \in ReqIds : ~InFlight(q) THEN "idle" ELSE "busy"

\* a model that takes any value of the member as text
ToolInputValid_AnyType(body) == body.has

\* class ToolInput(BaseModel): input: str -- the member is required and
\* must be a string
ToolInputValid(body) == body.has /\ body.type = "str"

\* the request once its body has been read: for echo the body is
\* validated into the payload before the handler is called, and a body that
\* fails is answered 422 without the handler
Dispatched(q) ==
    IF ~ToolInputValid(q.body)
    THEN [q EXCEPT !.st = "responded", !.status = 422,
                   !.result = Json("detail", <<>>)]
    ELSE [q EXCEPT !.st = "validated", !.payload = q.body.text]

\* the request as the router leaves it: a request to echo waits for its
\* body ("received"); the other handlers take no input and are called next
Routed(q) ==
    LET h == HandlerOf(q.method, q.path)
    IN  [q EXCEPT !.handler = h,
                  !.st = IF h = "echo" THEN "received" ELSE "validated"]

\* request r can come: the app is serving and the requests before it have come
Arrives(r) ==
    /\ pc = "serving"
    /\ reqs[r].st = "none"
    /\ \A q \in 1..(r - 1) : reqs[q].st # "none"

\* the request as it enters the middleware stack of the app and is routed
Entered(method, path, body) ==
    Routed([ NoRequest EXCEPT !.method = method, !.path = path, !.body = body,
                              !.ahead = Ahead ])

\* a client sends a request to the echo route; it enters the middleware
\* stack of the app, is routed, and its body is awaited
Receive(r, method, path, body) ==
    /\ Arrives(r)
    /\ Matching(method, path) # {}
    /\ HandlerOf(method, path) = "echo"
    /\ reqs' = [reqs EXCEPT ![r] = Entered(method, path, body)]
    /\ UNCHANGED <<env, pc, settings, logging, steps, startupLog, tracing,
                   routes, metrics, spans>>

\* echo(payload: ToolInput): the awaited body of the request has come and
\* is validated; other requests run while the body is awaited
ReadBody(r) ==
    /\ reqs[r].st = "received"
    /\ reqs' = [reqs EXCEPT ![r] = Dispatched(reqs[r])]
    /\ UNCHANGED <<env, pc, settings, logging, steps, startupLog, tracing,
                   routes, metrics, spans>>

\* a slip in the format string: the blank after the colon is lost
echo_result_NoBlank(input) == <<"E", "c", "h", "o", ":">> \o input

\* result = f"Echo: {payload.input}"
echo_result(input) == EchoPrefix \o input

\* the response logged ahead of the request
echo_logs_Swapped(input) ==
    << LogCall("echo.response", "output", echo_result(input)),
       LogCall("echo.request", "input", input) >>

\* the log calls of echo, in order
echo_logs(input) ==
    << LogCall("echo.request", "input", input),
       LogCall("echo.response", "output", echo_result(input)) >>

\* async def echo(payload): no await, so the body runs in one piece
echo(r) ==
    /\ reqs[r].st = "validated"
    /\ reqs[r].handler = "echo"
    /\ reqs' = [reqs EXCEPT ![r].st = "responded",
                            ![r].logs = echo_logs(reqs[r].payload),
                            ![r].status = 200,
                            ![r].result = Json("output", echo_result(reqs[r].payload))]
    /\ UNCHANGED <<env, pc, settings, logging, steps, startupLog, tracing,
                   routes, metrics, spans>>

health_check_result == Json("status", Str_ok)

\* async def health_check(), for GET and for HEAD: the route takes no
\* input, so the request is routed and the handler runs with no await
\* in between
health_check(r, method) ==
    /\ Arrives(r)
    /\ Matching(method, "/health") # {}
    /\ HandlerOf(method, "/health") = "health_check"
    /\ reqs' = [reqs EXCEPT ![r] =
                  [ Entered(method, "/health", NoBody) EXCEPT
                      !.st = "responded",
                      !.logs = <<LogCall("health.check", "", <<>>)>>,
                      !.status = 200,
                      !.result = health_check_result ]]
    /\ UNCHANGED <<env, pc, settings, logging, steps, startupLog, tracing,
                   routes, metrics, spans>>

\* readiness reporting a value of its own
ready_check_result_Ready == Json("status", <<"r", "e", "a", "d", "y">>)

ready_check_result == Json("status", Str_ok)

\* async def ready_check(): routed and run with no await in between
ready_check(r) ==
    /\ Arrives(r)
    /\ Matching("GET", "/ready") # {}
    /\ HandlerOf("GET", "/ready") = "ready_check"
    /\ reqs' = [reqs EXCEPT ![r] =
                  [ Entered("GET", "/ready", NoBody) EXCEPT
                      !.st = "responded",
                      !.logs = <<LogCall("ready.check", "", <<>>)>>,
                      !.status = 200,
                      !.result = ready_check_result ]]
    /\ UNCHANGED <<env, pc, settings, logging, steps, startupLog, tracing,
                   routes, metrics, spans>>

\* the handler registered by expose(app): routed and run with no await in
\* between, it renders the counters as they are
metrics_endpoint(r) ==
    /\ Arrives(r)
    /\ Matching("GET", "/metrics") # {}
    /\ HandlerOf("GET", "/metrics") = "metrics"
    /\ reqs' = [reqs EXCEPT ![r] =
                  [ Entered("GET", "/metrics", NoBody) EXCEPT
                      !.st = "responded",
                      !.status = 200,
                      !.result = Json("metrics", <<>>),
                      !.snapshot = metrics.counts ]]
    /\ UNCHANGED <<env, pc, settings, logging, steps, startupLog, tracing,
                   routes, metrics, spans>>

\* HEAD answered with the body of GET
WireBody_KeepsBody(method, result) == result

\* the body sent for a response: none for HEAD (health_check's docstring)
WireBody(method, result) == IF method = "HEAD" THEN EmptyBody ELSE result

\* the counter the middleware increments for a request
CounterKey(q) == <<q.path, q.method, StatusGroup(q.status)>>

\* an update that writes a value computed from a stale reading of the counter
CountsAfter_Stale(counts, q) == [counts EXCEPT ![CounterKey(q)] = 1]

CountsAfter(counts, q) == [counts EXCEPT ![CounterKey(q)] = @ + 1]

\* the response is sent: the awaited send calls of the app; other requests
\* run until they return
Send(r) ==
    /\ reqs[r].st = "responded"
    /\ reqs' = [reqs EXCEPT ![r].st = "sent",
                            ![r].wire = WireBody(reqs[r].method, reqs[r].result)]
    /\ UNCHANGED <<env, pc, settings, logging, steps, startupLog, tracing,
                   routes, metrics, spans>>

\* the app call returns to the middleware around it: with the app
\* instrumented for tracing the span of the request ends and is queued for
\* the batch exporter; then the metrics middleware counts the request
Leave(r) ==
    /\ reqs[r].st = "sent"
    /\ reqs' = [reqs EXCEPT ![r].st = "done"]
    /\ spans' = IF tracing.instrumented
                THEN [spans EXCEPT !.queued = spans.queued + 1]
                ELSE spans
    /\ metrics' = IF metrics.instrumented
                  THEN [metrics EXCEPT !.counts = CountsAfter(metrics.counts, reqs[r])]
                  ELSE metrics
    /\ UNCHANGED <<env, pc, settings, logging, steps, startupLog, tracing, routes>>

\* the batch span processor, in the background: export the queued spans to
\* the collector endpoint
ExportSpans ==
    /\ tracing.processor
    /\ spans.queued > 0
    /\ spans' = [queued |-> 0, attempted |-> TRUE]
    /\ UNCHANGED <<env, pc, settings, logging, steps, startupLog, tracing,
                   routes, metrics, reqs>>

\* ---------------------------------------------------------- specification

Init ==
    /\ env \in [ LOG_LEVEL : LogLevelEnv, SERVERS : ServersEnv,
                 OTEL_EXPORTER_OTLP_ENDPOINT : OtelEnv ]
    /\ pc = "settings"
    /\ settings = NoSettings
    /\ logging = LoggingInit
    /\ steps = <<>>
    /\ startupLog = <<>>
    /\ tracing = TracingInit
    /\ routes = <<>>
    /\ metrics = MetricsInit
    /\ reqs = [r \in ReqIds |-> NoRequest]
    /\ spans = [queued |-> 0, attempted |-> FALSE]

Next ==
    \/ LoadSettings
    \/ setup_logging
    \/ get_logger
    \/ CreateApp
    \/ setup_tracing
    \/ setup_metrics
    \/ route_echo
    \/ route_health_head
    \/ route_health_get
    \/ route_ready
    \/ \E r \in ReqIds, method \in Methods, path \in Paths, body \in Bodies :
          Receive(r, method, path, body)
    \/ \E r \in ReqIds : ReadBody(r)
    \/ \E r \in ReqIds : echo(r)
    \/ \E r \in ReqIds, method \in Methods : health_check(r, method)
    \/ \E r \in ReqIds : ready_check(r)
    \/ \E r \in ReqIds : metrics_endpoint(r)
    \/ \E r \in ReqIds : Send(r)
    \/ \E r \in ReqIds : Leave(r)
    \/ ExportSpans

Spec == Init /\ [][Next]_vars

\* ----------------------------------------------------------------- claims

\* the response of r has been sent
Answered(r) == reqs[r].st \in {"sent", "done"}
\* r has left the app and its middleware
Left(r) == reqs[r].st = "done"
IsEcho(r) == reqs[r].method = "POST" /\ reqs[r].path = "/echo"
HasTextInput(r) == reqs[r].body.has /\ reqs[r].body.type = "str"

\* C1: every POST /echo whose body holds a string input s is answered with
\* status 200 and the body {"output": "Echo: " + s}, whatever was served before
C1_EchoContract ==
    \A r \in ReqIds :
        (Answered(r) /\ IsEcho(r) /\ HasTextInput(r)) =>
            /\ reqs[r].status = 200
            /\ reqs[r].wire.key = "output"
            /\ reqs[r].wire.val =
                 <<"E", "c", "h", "o", ":", " ">> \o reqs[r].body.text

\* an echo of a non-ASCII input answered after an earlier request was served,
\* and an echo of the empty input
C1_Witness ==
    /\ Answered(1) /\ IsEcho(1) /\ HasTextInput(1) /\ reqs[1].body.text = <<>>
    /\ reqs[1].wire.val = <<"E", "c", "h", "o", ":", " ">>
    /\ Answered(2) /\ IsEcho(2) /\ HasTextInput(2)
    /\ reqs[2].body.text = <<"H", "é">>
    /\ reqs[2].wire.val = <<"E", "c", "h", "o", ":", " ", "H", "é">>

IsHealth(r) == reqs[r].path = "/health"

\* C2: every answer to GET /health and to HEAD /health has status 200; the
\* body of GET is {"status": "ok"} and the body of HEAD is empty
C2_Health ==
    \A r \in ReqIds :
        (Answered(r) /\ IsHealth(r)) =>
            /\ reqs[r].status = 200
            /\ reqs[r].method = "GET" =>
                 (reqs[r].wire.key = "status" /\ reqs[r].wire.val = <<"o", "k">>)
            /\ reqs[r].method = "HEAD" =>
                 (reqs[r].wire.key = "" /\ reqs[r].wire.val = <<>>)

\* a GET and a HEAD of /health have both been answered
C2_Witness ==
    \E g, h \in ReqIds :
        /\ Answered(g) /\ IsHealth(g) /\ reqs[g].method = "GET"
        /\ Answered(h) /\ IsHealth(h) /\ reqs[h].method = "HEAD"
        /\ reqs[h].status = reqs[g].status

IsReady(r) == reqs[r].path = "/ready" /\ reqs[r].method = "GET"

\* C3: every answer to GET /ready has status 200 and the body
\* {"status": "ok"}, the body every GET /health is answered with, with
\* tracing on or off and whatever was served before
C3_Ready ==
    \A r \in ReqIds :
        (Answered(r) /\ IsReady(r)) =>
            /\ reqs[r].status = 200
            /\ reqs[r].wire.key = "status" /\ reqs[r].wire.val = <<"o", "k">>
            /\ \A h \in ReqIds :
                 (Answered(h) /\ IsHealth(h) /\ reqs[h].method = "GET") =>
                     /\ reqs[h].wire = reqs[r].wire
                     /\ reqs[h].status = reqs[r].status

\* with tracing enabled, /ready answered after a GET /health was answered
C3_Witness ==
    /\ tracing.instrumented
    /\ \E h, r \in ReqIds :
          /\ h < r
          /\ Answered(h) /\ IsHealth(h) /\ reqs[h].method = "GET"
          /\ Answered(r) /\ IsReady(r) /\ reqs[r].wire.val = <<"o", "k">>

Rejectable(r) == reqs[r].st # "none" /\ IsEcho(r) /\ ~HasTextInput(r)

\* C4: a POST /echo whose body has no input member, or an input that is no
\* string, never reaches the handler: once its body is read it is answered
\* with a status other than 200, without an output and without any log call
C4_Rejected ==
    \A r \in ReqIds :
        Rejectable(r) =>
            /\ reqs[r].st # "validated"
            /\ reqs[r].status # 200
            /\ reqs[r].st # "received" =>
                  (reqs[r].status >= 400 /\ reqs[r].status < 500)
            /\ reqs[r].result.key # "output" /\ reqs[r].wire.key # "output"
            /\ reqs[r].logs = <<>>

\* a body without input and a body with a number as input, both answered
C4_Witness ==
    \E a, b \in ReqIds :
        /\ Answered(a) /\ IsEcho(a) /\ ~reqs[a].body.has
        /\ Answered(b) /\ IsEcho(b) /\ reqs[b].body.has /\ reqs[b].body.type = "int"
        /\ reqs[a].status = 422 /\ reqs[b].status = 422

Served(path, method) ==
    Cardinality({r \in ReqIds :
                   Left(r) /\ reqs[r].path = path /\ reqs[r].method = method})

Counted(path, method) ==
    metrics.counts[<<path, method, "2xx">>] + metrics.counts[<<path, method, "4xx">>]

IsScrape(r) == reqs[r].path = "/metrics"
Rendered(r) == IsScrape(r) /\ reqs[r].st \in {"responded", "sent", "done"}

\* the requests of a route and method received before request s
Earlier(s, path, method) ==
    Cardinality({q \in 1..(s - 1) : reqs[q].path = path /\ reqs[q].method = method})

Reported(s, path, method) ==
    reqs[s].snapshot[<<path, method, "2xx">>] + reqs[s].snapshot[<<path, method, "4xx">>]

C5_EveryRequestCounted ==
    \A path \in Paths, method \in Methods : Counted(path, method) = Served(path, method)

C5_NeverDecreases ==
    \A k \in CounterKeys : metrics'.counts[k] >= metrics.counts[k]

\* a scrape that came when every earlier request had left the app reports
\* every earlier request
C5_ReadAfterLeft ==
    \A s \in ReqIds :
        (Rendered(s) /\ reqs[s].ahead = "idle") =>
            \A path \in Paths, method \in Methods :
                Reported(s, path, method) = Earlier(s, path, method)

\* once every request received has completed, each counter is the number of
\* requests of its route and method: the count before them, 0, plus N
Received(path, method) ==
    Cardinality({q \in ReqIds : reqs[q].st # "none" /\ reqs[q].path = path
                                 /\ reqs[q].method = method})

C5_ReadWhenCompleted ==
    (\A q \in ReqIds : ~InFlight(q)) =>
        \A path \in Paths, method \in Methods :
            Counted(path, method) = Received(path, method)

StepDone(s) == \E i \in 1..Len(steps) : steps[i] = s
StepPos(s) == CHOOSE i \in 1..Len(steps) : steps[i] = s
StepCount(s) == Cardinality({i \in 1..Len(steps) : steps[i] = s})

EndpointEmpty == env.OTEL_EXPORTER_OTLP_ENDPOINT \in {Unset, ""}

C6_Decided ==
    /\ StepCount("setup_tracing") <= 1
    /\ ~StepDone("setup_tracing") => (tracing.providerInits = 0 /\ ~tracing.instrumented)
    /\ (StepDone("setup_tracing") /\ EndpointEmpty) =>
          /\ ~tracing.provider /\ tracing.providerInits = 0
          /\ tracing.exporter = "" /\ ~tracing.processor
          /\ ~tracing.instrumented
          /\ spans.queued = 0 /\ ~spans.attempted
    /\ (StepDone("setup_tracing") /\ ~EndpointEmpty) =>
          /\ tracing.provider /\ tracing.providerInits = 1
          /\ tracing.exporter = env.OTEL_EXPORTER_OTLP_ENDPOINT
          /\ tracing.processor /\ tracing.instrumented

C6_NeverChanges == StepDone("setup_tracing") => tracing' = tracing

\* C6: setup_tracing runs once and what it decided never changes: with an
\* empty endpoint there is no provider, no exporter, no instrumentation and
\* no export is ever attempted; with an endpoint the provider is initialised
\* exactly once, with its exporter and the instrumentation of the app
C6_Tracing == [](C6_Decided) /\ [][C6_NeverChanges]_vars

\* tracing enabled: one provider initialisation, a request served and its
\* span exported
C6_Witness ==
    /\ ~EndpointEmpty
    /\ tracing.providerInits = 1
    /\ spans.attempted
    /\ \E r \in ReqIds : Left(r)

MetricsKey == <<"/metrics", "GET", "2xx">>

\* scrapes a and b follow each other with no other request in between: a
\* came with no request in the app and b came next
Consecutive(a, b) ==
    /\ b = a + 1
    /\ Rendered(a) /\ Rendered(b)
    /\ reqs[a].ahead = "idle"

ScrapeStep(r) == reqs'[r] # reqs[r] /\ IsScrape(r)'

C7_StepFrame ==
    \A r \in ReqIds :
        ScrapeStep(r) =>
            /\ \A k \in CounterKeys \ {MetricsKey} :
                   metrics'.counts[k] = metrics.counts[k]
            /\ reqs'[r].st # "done" => metrics'.counts = metrics.counts
            /\ reqs'[r].st = "done" =>
                   metrics'.counts[MetricsKey] = metrics.counts[MetricsKey] + 1

C7_ConsecutiveScrapes ==
    \A a, b \in ReqIds :
        Consecutive(a, b) =>
            /\ \A k \in CounterKeys \ {MetricsKey} :
                   reqs[b].snapshot[k] = reqs[a].snapshot[k]
            /\ reqs[b].ahead = "busy" =>
                   reqs[b].snapshot[MetricsKey] = reqs[a].snapshot[MetricsKey]
            /\ reqs[b].ahead = "idle" =>
                   reqs[b].snapshot[MetricsKey] = reqs[a].snapshot[MetricsKey] + 1

ServersMalformed ==
    /\ env.SERVERS.set
    /\ \/ ~env.SERVERS.json
       \/ \E i \in 1..Len(env.SERVERS.items) : env.SERVERS.items[i] # "dict[str,str]"

LogLevelMalformed ==
    /\ env.LOG_LEVEL # Unset
    /\ upper(env.LOG_LEVEL) \notin
         {"CRITICAL", "FATAL", "ERROR", "WARN", "WARNING", "INFO", "DEBUG", "NOTSET"}

Accepting == pc = "serving" \/ \E r \in ReqIds : reqs[r].st # "none"

\* C8: with a malformed SERVERS or LOG_LEVEL the startup stops before the
\* app exists, so no request is ever accepted; whenever requests are
\* accepted the settings are loaded, well-typed and applied to logging
C8_FailFast ==
    /\ (ServersMalformed \/ LogLevelMalformed) =>
          /\ pc \in {"settings", "setup_logging", "aborted"}
          /\ ~StepDone("app") /\ routes = <<>>
          /\ ~Accepting
    /\ ServersMalformed => ~settings.loaded
    /\ Accepting =>
          /\ settings.loaded
          /\ \A i \in 1..Len(settings.SERVERS) : settings.SERVERS[i] = "dict[str,str]"
          /\ env.LOG_LEVEL # Unset => settings.LOG_LEVEL = env.LOG_LEVEL
          /\ env.OTEL_EXPORTER_OTLP_ENDPOINT # Unset =>
                settings.OTEL_EXPORTER_OTLP_ENDPOINT = env.OTEL_EXPORTER_OTLP_ENDPOINT
          /\ logging.configured = 1
          /\ logging.level = nameToLevel[upper(settings.LOG_LEVEL)]

\* startup aborted in setup_logging on a LOG_LEVEL that names no level,
\* after the settings had loaded
C8_Witness ==
    /\ pc = "aborted"
    /\ LogLevelMalformed /\ ~ServersMalformed
    /\ settings.loaded
    /\ ~Accepting

RouteSteps == {"route_echo", "route_health_head", "route_health_get", "route_ready"}
Before(s, u) == StepDone(u) => (StepDone(s) /\ StepPos(s) < StepPos(u))

AllLogCalls ==
    {startupLog[i] : i \in 1..Len(startupLog)}
    \cup UNION {{reqs[r].logs[i] : i \in 1..Len(reqs[r].logs)} : r \in ReqIds}

\* C9: the startup steps run once each and in order: setup_logging (after
\* the settings it reads are loaded) ahead of every other step and of every
\* log call, then setup_tracing, then setup_metrics, then the routes; no
\* request is received before all of them have run
C9_StartupOrder ==
    /\ \A s \in {"setup_logging", "setup_tracing", "setup_metrics"} \cup RouteSteps :
          StepCount(s) <= 1
    /\ logging.configured = StepCount("setup_logging")
    /\ \A i \in 1..Len(steps) :
          steps[i] \notin {"settings", "setup_logging"} =>
              (StepDone("setup_logging") /\ StepPos("setup_logging") < i)
    /\ \A c \in AllLogCalls : c.configured
    /\ Before("setup_logging", "setup_tracing")
    /\ Before("setup_tracing", "setup_metrics")
    /\ \A s \in RouteSteps : Before("setup_metrics", s)
    /\ Accepting =>
          /\ \A s \in {"setup_logging", "setup_tracing", "setup_metrics"} \cup RouteSteps :
                StepCount(s) = 1
          /\ metrics.instrumented
          /\ Len(routes) = 5

\* every step has run and a request has been answered
C9_Witness ==
    /\ pc = "serving"
    /\ Len(steps) = 10
    /\ Len(startupLog) = 1
    /\ \E r \in ReqIds : Answered(r) /\ IsEcho(r) /\ Len(reqs[r].logs) = 2

HandlerRan(r) == reqs[r].st \in {"responded", "sent", "done"} /\ reqs[r].status = 200

\* C10: an echo that passed validation has made no log call before its
\* handler runs and exactly two when it returns, echo.request with the input
\* then echo.response with the output, both at level info; a health or
\* ready request makes exactly one, health.check or ready.check, at info
C10_LogCalls ==
    \A r \in ReqIds :
        /\ reqs[r].st \in {"received", "validated"} =>
              (reqs[r].logs = <<>> /\ reqs[r].result.key = "")
        /\ (IsEcho(r) /\ HandlerRan(r)) =>
              /\ Len(reqs[r].logs) = 2
              /\ reqs[r].logs[1].event = "echo.request"
              /\ reqs[r].logs[1].level = "info"
              /\ reqs[r].logs[1].key = "input"
              /\ reqs[r].logs[1].value = reqs[r].body.text
              /\ reqs[r].logs[2].event = "echo.response"
              /\ reqs[r].logs[2].level = "info"
              /\ reqs[r].logs[2].key = "output"
              /\ reqs[r].logs[2].value = reqs[r].result.val
        /\ (IsHealth(r) /\ HandlerRan(r)) =>
              /\ Len(reqs[r].logs) = 1
              /\ reqs[r].logs[1].event = "health.check"
              /\ reqs[r].logs[1].level = "info"
        /\ (IsReady(r) /\ HandlerRan(r)) =>
              /\ Len(reqs[r].logs) = 1
              /\ reqs[r].logs[1].event = "ready.check"
              /\ reqs[r].logs[1].level = "info"

\* an echo answered after its two log calls, and a health check after its one
C10_Witness ==
    \E e, h \in ReqIds :
        /\ Answered(e) /\ IsEcho(e) /\ Len(reqs[e].logs) = 2
        /\ reqs[e].logs[2].value = reqs[e].wire.val
        /\ Answered(h) /\ IsHealth(h) /\ Len(reqs[h].logs) = 1

====
